---- MODULE Spec2Model ----
(***************************************************************************)
(* Reconcile procedure of the Azure modules azure_rm_autoscale and         *)
(* azure_rm_servers: one invocation is fetch -> diff -> (write) -> result. *)
(* The provider (transport) is a store holding at most one resource under  *)
(* the identity the invocation names; every provider call may fail.        *)
(*                                                                         *)
(* Python values are modelled as follows.  Strings stay strings; None is   *)
(* the string "None"; a missing dict key is the string "Absent"; booleans  *)
(* that may be None are the strings "True" / "False" / "None".  A list     *)
(* that may be None or missing is a record [key, items] with key one of    *)
(* "absent", "none", "list".  A tags dict is a record over the tag keys    *)
(* the model uses, a missing key holding "Missing", plus the flag isNone.  *)
(***************************************************************************)
EXTENDS Integers, Sequences, FiniteSets, TLC

VARIABLES
    module,         \* which module runs: "autoscale" or "servers"
    check_mode,     \* self.check_mode of the running invocation
    desired,        \* the arguments the caller supplied (kwargs), as supplied
    params,         \* the caller's `profiles` mapping as it is now (mutated in place)
    remote,         \* the provider's store: NoResource or the resource
    pc,             \* position of the running invocation
    run,            \* number of the running invocation, 1..MaxRuns
    self_location,  \* self.location
    self_tags,      \* self.tags
    self_target,    \* self.target
    resource_name,  \* local resource_name of AzureRMAutoScale.exec_module
    results,        \* local `results` (autoscale) / `response` (servers)
    changed,        \* local `changed` (autoscale) / self.results['changed'] (servers)
    to_be_updated,  \* local to_be_updated of AzureRMServers.exec_module
    payload,        \* the last object handed to create_or_update, NoResource if none
    result,         \* what the invocation returned (self.results), when pc = "done"
    reads,          \* provider read calls issued by the running invocation
    deletes,        \* provider delete calls issued by the running invocation
    creates,        \* provider create_or_update calls issued by the running invocation
    fetched,        \* outcome of the fetch of the running invocation
    write_failed,   \* TRUE once a provider write call of this invocation raised
    write_outcome,  \* how the last provider write call of this invocation ended
    group_lookups,  \* get_resource_group calls issued by the running invocation
    mgmt_client,    \* self.mgmt_client: "Absent" (no such attribute), None or "client"
    TOKEN_ACQUIRED, \* azure_keyvault_secret: whether the import obtained an MSI token
    credentials,    \* azure_keyvault_secret: "built" once ServicePrincipalCredentials is
    ret,            \* azure_keyvault_secret: local `ret` of LookupModule.run
    fetch_log,      \* azure_keyvault_secret: how the fetch of each term so far went
    remote0,        \* the provider's store when the running invocation started
    prev            \* summary of the previous invocation, NoRun before the second

vars == <<module, check_mode, desired, params, remote, pc, run, self_location,
          self_tags, self_target, resource_name, results, changed, to_be_updated,
          payload, result, reads, deletes, creates, fetched, write_failed,
          write_outcome, group_lookups, mgmt_client,
          TOKEN_ACQUIRED, credentials, ret, fetch_log,
          remote0, prev>>

(***************************************************************************)
(* Bounds of the model.                                                    *)
(***************************************************************************)
MaxRuns == 2            \* successive invocations with the same arguments
MaxProfiles == 2        \* length of the desired `profiles` list
MaxNotifications == 2   \* length of the desired `notifications` list

(***************************************************************************)
(* Python values.                                                          *)
(***************************************************************************)
None == "None"
Absent == "Absent"
NoResource == [kind |-> "None"]
NoRun == [kind |-> "None"]

NoneList == [key |-> "none", items |-> <<>>]
AbsentList == [key |-> "absent", items |-> <<>>]
List(s) == [key |-> "list", items |-> s]

\* d.get(k, default) on an optional list: the default only for a missing key
GetOr(l, default) == IF l.key = "absent" THEN default ELSE l

\* `x or []` on an optional list
OrEmpty(l) == IF l.key = "list" THEN l.items ELSE <<>>

\* iterating an optional list raises TypeError when it is None
Iterable(l) == l.key = "list"

NoneTags == [isNone |-> TRUE, env |-> "Missing", owner |-> "Missing"]
Tags(e, o) == [isNone |-> FALSE, env |-> e, owner |-> o]
TagKeys == {"env", "owner"}


(***************************************************************************)
(* Desired state of azure_rm_autoscale: rule, profile and notification     *)
(* mappings as the caller writes them (rule_spec, profile_spec,            *)
(* notification_spec).                                                     *)
(***************************************************************************)
Rule(name, uri, direction, type, value, cooldown) ==
    [metric_name |-> name, metric_resource_uri |-> uri, time_grain |-> "PT1M",
     statistic |-> "Average", time_window |-> "PT10M", time_aggregation |-> "Average",
     operator |-> "GreaterThan", threshold |-> "70",
     direction |-> direction, type |-> type, value |-> value, cooldown |-> cooldown]

R1 == Rule("cpu", Absent, "Increase", "ChangeCount", "1", "PT5M")
R2 == Rule("mem", "/vm009", "Decrease", "ExactCount", "2", "PT1M")
R3 == Rule("cpu", None, "None", "ChangeCount", None, "PT5M")

Profile(name, count, min, max, rules, tz) ==
    [name |-> name, count |-> count, max_count |-> max, min_count |-> min,
     rules |-> rules,
     fixed_date_timezone |-> tz,
     fixed_date_start |-> IF tz = None THEN None ELSE "2018-01-01",
     fixed_date_end |-> IF tz = None THEN None ELSE "2018-12-31",
     recurrence_frequency |-> None, recurrence_timezone |-> None,
     recurrence_days |-> None, recurrence_hours |-> None, recurrence_mins |-> None]

P1 == Profile("p1", "2", "1", "4", List(<<R1, R2>>), None)
P2 == Profile("p2", "1", None, None, List(<<R3>>), "UTC")
P3 == Profile("p3", "3", "3", "3", AbsentList, None)
P4 == Profile("p4", "1", "1", "1", NoneList, None)

Webhook(url) == [service_url |-> url, properties |-> None]

Notification(admin, emails, webhooks) ==
    [send_to_subscription_administrator |-> admin,
     send_to_subscription_co_administrators |-> None,
     custom_emails |-> emails, webhooks |-> webhooks]

N1 == Notification("True", None, List(<<Webhook("http://hook")>>))
N2 == Notification("False", "ops@example.com", NoneList)

DictTarget == "dict"    \* a `target` given as a mapping instead of a resource id

SeqsUpTo(S, n) == UNION {[1..k -> S] : k \in 0..n}

ProfileSet == {P1, P2}
ProfileLists == {List(s) : s \in (SeqsUpTo(ProfileSet, MaxProfiles) \ {<<>>})}
                    \cup {List(<<P3>>), List(<<P4>>)}
NotificationSet == {N1, N2}
NotificationLists == {NoneList} \cup {List(s) : s \in SeqsUpTo(NotificationSet, MaxNotifications)}


(***************************************************************************)
(* SDK objects (azure.mgmt.monitor.models) as records; NoneObj is a None   *)
(* attribute.  The constructors take the keywords they know from **kwargs. *)
(***************************************************************************)
NoneObj == [kind |-> "None"]

MetricTrigger(r) ==
    [metric_name |-> r.metric_name, metric_resource_uri |-> r.metric_resource_uri,
     time_grain |-> r.time_grain, statistic |-> r.statistic,
     time_window |-> r.time_window, time_aggregation |-> r.time_aggregation,
     operator |-> r.operator, threshold |-> r.threshold]

ScaleAction(r) ==
    [direction |-> r.direction, type |-> r.type, value |-> r.value,
     cooldown |-> r.cooldown]

ScaleRule(r) ==
    [kind |-> "ScaleRule", metric_trigger |-> MetricTrigger(r),
     scale_action |-> ScaleAction(r)]

Truthy(x) == x \notin {None, Absent, "", "False"}

\* the comprehension with the keywords of ScaleCapacity crossed over
AutoscaleProfileCrossed(p) ==
    [kind |-> "AutoscaleProfile", name |-> p.name,
     capacity |-> [minimum |-> p.max_count, maximum |-> p.min_count,
                   default |-> p.count],
     rules |-> [i \in 1..Len(GetOr(p.rules, List(<<>>)).items) |->
                    ScaleRule(GetOr(p.rules, List(<<>>)).items[i])],
     fixed_date |-> NoneObj, recurrence |-> NoneObj]

\* one element of the `profiles` comprehension of exec_module
AutoscaleProfile(p) ==
    [kind |-> "AutoscaleProfile", name |-> p.name,
     capacity |-> [minimum |-> p.min_count, maximum |-> p.max_count,
                   default |-> p.count],
     rules |-> [i \in 1..Len(GetOr(p.rules, List(<<>>)).items) |->
                    ScaleRule(GetOr(p.rules, List(<<>>)).items[i])],
     fixed_date |-> IF Truthy(p.fixed_date_timezone)
                    THEN [time_zone |-> p.fixed_date_timezone,
                          start |-> p.fixed_date_start, end |-> p.fixed_date_end]
                    ELSE NoneObj,
     recurrence |-> IF Truthy(p.recurrence_frequency)
                    THEN [frequency |-> p.recurrence_frequency,
                          schedule |-> [time_zone |-> p.recurrence_timezone,
                                        days |-> p.recurrence_days,
                                        hours |-> p.recurrence_hours,
                                        minutes |-> p.recurrence_mins]]
                    ELSE NoneObj]

EmailNotification(n) ==
    [send_to_subscription_administrator |-> n.send_to_subscription_administrator,
     send_to_subscription_co_administrators |-> n.send_to_subscription_co_administrators,
     custom_emails |-> n.custom_emails]

\* one element of the `notifications` comprehension of exec_module
AutoscaleNotification(n) ==
    [kind |-> "AutoscaleNotification", email |-> EmailNotification(n),
     webhooks |-> [i \in 1..Len(n.webhooks.items) |->
                      [service_url |-> n.webhooks.items[i].service_url,
                       properties |-> n.webhooks.items[i].properties]]]

\* the comprehensions raise TypeError on a None they iterate: a profile's
\* `rules` present with value None, a notification's `webhooks` None or missing
PayloadRaises(profiles, notifications) ==
    \/ \E i \in 1..Len(OrEmpty(profiles)) :
            ~Iterable(GetOr(OrEmpty(profiles)[i].rules, List(<<>>)))
    \/ \E i \in 1..Len(OrEmpty(notifications)) :
            ~Iterable(OrEmpty(notifications)[i].webhooks)

\* a patch: only the fields the diff looks at are sent
AutoscaleSettingPatch(location, tags, profiles, notifications, enabled, name, target) ==
    [kind |-> "resource", id |-> None, name |-> None,
     location |-> location, tags |-> tags, profiles |-> <<>>, notifications |-> <<>>,
     enabled |-> enabled, autoscale_setting_resource_name |-> name,
     target_resource_uri |-> target]

\* AutoscaleSettingResource(...) of exec_module
AutoscaleSettingResource(location, tags, profiles, notifications, enabled, name, target) ==
    [kind |-> "resource", id |-> None, name |-> None,
     location |-> location, tags |-> tags,
     profiles |-> [i \in 1..Len(OrEmpty(profiles)) |-> AutoscaleProfile(OrEmpty(profiles)[i])],
     notifications |-> [i \in 1..Len(OrEmpty(notifications)) |->
                           AutoscaleNotification(OrEmpty(notifications)[i])],
     enabled |-> enabled,
     autoscale_setting_resource_name |-> name,
     target_resource_uri |-> target]


(***************************************************************************)
(* Normalisation of an SDK object into the mapping the module returns.     *)
(***************************************************************************)
EmptyDict == [kind |-> "dict"]

IsObj(x) == x.kind # "None"

rule_to_dict(rule, default_uri) ==
    IF ~IsObj(rule) THEN EmptyDict
    ELSE LET t == rule.metric_trigger
             a == rule.scale_action
         IN [metric_name |-> IF t # NoneObj THEN t.metric_name ELSE "",
             metric_resource_uri |-> IF t # NoneObj THEN t.metric_resource_uri ELSE default_uri,
             time_grain |-> IF t # NoneObj THEN t.time_grain ELSE "PT1M",
             statistic |-> IF t # NoneObj THEN t.statistic ELSE "Average",
             time_window |-> IF t # NoneObj THEN t.time_window ELSE "PT10M",
             time_aggregation |-> IF t # NoneObj THEN t.time_aggregation ELSE "Average",
             operator |-> IF t # NoneObj THEN t.operator ELSE "GreaterThan",
             threshold |-> IF t # NoneObj THEN t.threshold ELSE "70",
             direction |-> IF a # NoneObj THEN a.direction ELSE "None",
             type |-> IF a # NoneObj THEN a.direction ELSE "ChangeCount",
             value |-> IF a # NoneObj THEN a.direction ELSE None,
             cooldown |-> IF a # NoneObj THEN a.direction ELSE "PT5M"]

profile_to_dict(profile, default_uri) ==
    IF ~IsObj(profile) THEN EmptyDict
    ELSE LET d == profile.fixed_date
             r == profile.recurrence
             sched == r # NoneObj /\ r.schedule # NoneObj
         IN [name |-> profile.name,
             count |-> profile.capacity.default,
             max_count |-> profile.capacity.maximum,
             min_count |-> profile.capacity.minimum,
             rules |-> List([i \in 1..Len(profile.rules) |->
                                rule_to_dict(profile.rules[i], default_uri)]),
             fixed_date_timezone |-> IF d # NoneObj THEN d.time_zone ELSE None,
             fixed_date_start |-> IF d # NoneObj THEN d.start ELSE None,
             fixed_date_end |-> IF d # NoneObj THEN d.end ELSE None,
             recurrence_frequency |-> IF r # NoneObj THEN r.frequency ELSE None,
             recurrence_timezone |-> IF sched THEN r.schedule.time_zone ELSE None,
             recurrence_days |-> IF sched THEN r.schedule.days ELSE None,
             recurrence_hours |-> IF sched THEN r.schedule.hours ELSE None,
             recurrence_mins |-> IF sched THEN r.schedule.minutes ELSE None]

notification_to_dict(notification) ==
    IF ~IsObj(notification) THEN EmptyDict
    ELSE LET e == notification.email
         IN [send_to_subscription_administrator |->
                IF e # NoneObj THEN e.send_to_subscription_administrator ELSE "False",
             send_to_subscription_co_administrators |->
                IF e # NoneObj THEN e.send_to_subscription_co_administrators ELSE "False",
             custom_emails |-> IF e # NoneObj THEN e.custom_emails ELSE None,
             webhooks |-> IF Len(notification.webhooks) > 0
                          THEN List([i \in 1..Len(notification.webhooks) |->
                                    [service_url |-> notification.webhooks[i].service_url,
                                     properties |-> notification.webhooks[i].properties]])
                          ELSE NoneList]

auto_scale_to_dict(instance) ==
    IF ~IsObj(instance) THEN EmptyDict
    ELSE [kind |-> "dict",
          id |-> instance.id,
          name |-> instance.name,
          location |-> instance.location,
          profiles |-> [i \in 1..Len(instance.profiles) |->
                           profile_to_dict(instance.profiles[i], instance.target_resource_uri)],
          notifications |-> [i \in 1..Len(instance.notifications) |->
                                notification_to_dict(instance.notifications[i])],
          enabled |-> instance.enabled,
          target |-> instance.target_resource_uri,
          tags |-> instance.tags]

(***************************************************************************)
(* The diff of AzureRMAutoScale.exec_module.                               *)
(***************************************************************************)
\* AzureRMModuleBase.update_tags: <<changed, merged tags>>.  A desired tag
\* that the resource lacks or holds with another value is a change; the
\* resource's other tags are kept.
update_tags(desired_tags, tags) ==
    LET base == IF tags.isNone THEN Tags("Missing", "Missing") ELSE tags
        differs(k) == ~desired_tags.isNone /\ desired_tags[k] # "Missing"
                        /\ base[k] # desired_tags[k]
        pick(k) == IF ~desired_tags.isNone /\ desired_tags[k] # "Missing"
                   THEN desired_tags[k] ELSE base[k]
    IN  <<\E k \in TagKeys : differs(k), Tags(pick("env"), pick("owner"))>>

\* exec_module with the comparison of profiles and notifications restored as
\* a comparison of lists, element by element in the order given
NestedChangedInOrder(profiles, notifications, found) ==
    \/ [i \in 1..Len(OrEmpty(profiles)) |-> AutoscaleProfile(OrEmpty(profiles)[i])]
            # found.profiles
    \/ [i \in 1..Len(OrEmpty(notifications)) |->
            AutoscaleNotification(OrEmpty(notifications)[i])] # found.notifications

\* the comparison of profiles and notifications that exec_module leaves
\* commented out: nothing is compared
NestedChanged(profiles, notifications, found) == FALSE

\* `changed` of the branch "check changed"
CheckChanged(tags, target, enabled, profiles, notifications, found) ==
    \/ update_tags(tags, found.tags)[1]
    \/ target # found.target_resource_uri
    \/ enabled # found.enabled
    \/ NestedChanged(profiles, notifications, found)

\* exec_module with `if self.state == 'absent'` in place of
\* `if results and self.state == 'absent'`
ChangedWithoutFetchTest(state, tags, target, enabled, profiles, notifications, found) ==
    IF state = "absent" THEN TRUE
    ELSE IF ~IsObj(found) THEN TRUE
    ELSE CheckChanged(tags, target, enabled, profiles, notifications, found)

\* `changed` as exec_module computes it from the arguments and the fetch
Changed(state, tags, target, enabled, profiles, notifications, found) ==
    IF IsObj(found) /\ state = "absent" THEN TRUE
    ELSE IF state = "present"
         THEN IF ~IsObj(found) THEN TRUE
              ELSE CheckChanged(tags, target, enabled, profiles, notifications, found)
         ELSE FALSE


(***************************************************************************)
(* Arguments and provider states the model draws from.                     *)
(***************************************************************************)
ResourceName == "foobar"        \* the `name` / `server_name` argument
GroupLocation == "westus"       \* location of the resource group

AutoscaleArgs(state, location, tags, target, enabled, profiles, notifications) ==
    [state |-> state, location |-> location, tags |-> tags, target |-> target,
     enabled |-> enabled, profiles |-> profiles, notifications |-> notifications]

AutoscaleDesired ==
    {AutoscaleArgs("present", l, t, "/vm001", e, p, n) :
        l \in {None, "eastus"}, t \in {NoneTags, Tags("dev", "Missing")},
        e \in {None, "True"}, p \in ProfileLists, n \in NotificationLists}
    \cup {AutoscaleArgs("present", l, NoneTags, DictTarget, e, List(<<P1>>), NoneList) :
        l \in {None, "eastus"}, e \in {None, "True"}}
    \cup {AutoscaleArgs("absent", l, NoneTags, None, None, p, NoneList) :
        l \in {None, "eastus"}, p \in {NoneList, List(<<P1>>)}}

ServersArgs(state, tags) ==
    [state |-> state, location |-> "eastus", tags |-> tags, identity |-> None,
     administrator_login |-> "admin", administrator_login_password |-> "secret",
     version |-> "12.0"]

ServersDesired == {ServersArgs(s, t) : s \in {"present", "absent"},
                                       t \in {NoneTags, Tags("dev", "Missing")}}

\* what the provider holds after create_or_update(payload): the payload, named
Stored(p) == [p EXCEPT !.id = "/id/foobar", !.name = ResourceName]

\* the loop "trigger resource should be the setting's target uri as default"
SetDefaultUri(profiles, target) ==
    IF profiles.key # "list" THEN profiles
    ELSE List([i \in 1..Len(profiles.items) |->
            IF profiles.items[i].rules.key # "list" THEN profiles.items[i]
            ELSE [profiles.items[i] EXCEPT !.rules =
                    List([j \in 1..Len(profiles.items[i].rules.items) |->
                        [profiles.items[i].rules.items[j] EXCEPT !.metric_resource_uri =
                            IF @ = Absent THEN target ELSE @]])]])

\* the loop raises TypeError on a profile whose `rules` is present and None
SetDefaultUriRaises(profiles) ==
    \E i \in 1..Len(OrEmpty(profiles)) :
        ~Iterable(GetOr(OrEmpty(profiles)[i].rules, List(<<>>)))

AutoscaleRemote ==
    {NoResource} \cup
    {Stored(AutoscaleSettingResource("eastus", t, SetDefaultUri(p, g), NoneList, e,
                                     ResourceName, g)) :
        t \in {Tags("dev", "Missing"), Tags("prod", "ops")},
        g \in {"/vm001", "/vm002"}, e \in {"True", "False"},
        p \in {List(<<P1>>)}}

\* the `parameters` dict of AzureRMServers.exec_module
ServersParameters(d) ==
    [kind |-> "resource", id |-> None, name |-> None,
     location |-> d.location, tags |-> d.tags, identity |-> d.identity,
     administrator_login |-> d.administrator_login,
     administrator_login_password |-> d.administrator_login_password,
     version |-> d.version]

ServersRemote ==
    {NoResource} \cup
    {Stored(ServersParameters(ServersArgs("present", t))) :
        t \in {NoneTags, Tags("dev", "Missing"), Tags("prod", "ops")}}

(***************************************************************************)
(* Outcomes of a provider call: "ok", "notfound" (CloudError, status 404), *)
(* "error" (CloudError, another status), "exception" (any other exception).*)
(***************************************************************************)
GetOutcomes == IF IsObj(remote) THEN {"ok", "error", "exception"}
               ELSE {"notfound", "error", "exception"}
GroupOutcomes == {"ok", "error"}
WriteOutcomes == {"ok", "error", "exception"}
\* a delete may also find the resource gone since the fetch ("notfound")
DeleteOutcomes == WriteOutcomes \cup {"notfound"}

Terminal == {"done", "failed", "raised"}

Init ==
    /\ module \in {"autoscale", "servers"}
    /\ check_mode \in BOOLEAN
    /\ \/ module = "autoscale" /\ desired \in AutoscaleDesired /\ remote \in AutoscaleRemote
       \/ module = "servers" /\ desired \in ServersDesired /\ remote \in ServersRemote
    /\ params = IF module = "autoscale" THEN desired.profiles ELSE NoneList
    /\ pc = "start"
    /\ run = 1
    /\ self_location = desired.location
    /\ self_tags = desired.tags
    /\ self_target = IF module = "autoscale" THEN desired.target ELSE None
    /\ resource_name = ResourceName
    /\ results = NoResource
    /\ changed = FALSE
    /\ to_be_updated = FALSE
    /\ payload = NoResource
    /\ result = NoResource
    /\ reads = 0 /\ deletes = 0 /\ creates = 0
    /\ fetched = "none"
    /\ write_failed = FALSE
    /\ write_outcome = "none"
    /\ group_lookups = 0
    /\ mgmt_client = IF module = "servers" THEN None ELSE "Absent"
    /\ TOKEN_ACQUIRED = FALSE /\ credentials = "none" /\ ret = <<>> /\ fetch_log = <<>>
    /\ remote0 = remote
    /\ prev = NoRun


(***************************************************************************)
(* AzureRMAutoScale.exec_module, cut at its provider calls.                *)
(***************************************************************************)
\* exec_module reporting changed=True whatever it computed
AutoscaleResultsAlwaysChanged(res, chg) ==
    [changed |-> TRUE, state |-> auto_scale_to_dict(res)]

\* exec_module returning without copying `changed` into the results
AutoscaleResultsNeverChanged(res, chg) ==
    [changed |-> FALSE, state |-> auto_scale_to_dict(res)]

\* self.results = auto_scale_to_dict(results); self.results['changed'] = changed
AutoscaleResults(res, chg) == [changed |-> chg, state |-> auto_scale_to_dict(res)]

\* the resource group is looked up whatever `location` holds
LookupLocationAlways(location) == TRUE

\* `if not self.location:` the location comes from the resource group
LookupLocation(location) == ~Truthy(location)

\* setattr loop, default location, target id and default metric uri, up to the fetch
AutoscaleStart ==
    /\ module = "autoscale" /\ pc = "start"
    /\ \E group \in GroupOutcomes :
        LET lookup == LookupLocation(self_location)
            target_raises == self_target = DictTarget
            rules_raise == SetDefaultUriRaises(params)
        IN  /\ reads' = IF lookup THEN reads + 1 ELSE reads
            /\ group_lookups' = IF lookup THEN group_lookups + 1 ELSE group_lookups
            /\ IF lookup /\ group # "ok"
               THEN pc' = "failed" /\ UNCHANGED <<self_location, params>>
               ELSE /\ self_location' = IF lookup THEN GroupLocation ELSE self_location
                    /\ IF target_raises \/ rules_raise
                       THEN pc' = "raised" /\ UNCHANGED params
                       ELSE pc' = "fetch" /\ params' = SetDefaultUri(params, self_target)
    /\ UNCHANGED <<module, mgmt_client, TOKEN_ACQUIRED, credentials, ret, fetch_log,
                   write_outcome, check_mode, desired, remote, run, self_tags, self_target,
                   resource_name, results, changed, to_be_updated, payload, result,
                   deletes, creates, fetched, write_failed, remote0, prev>>

\* get_auto_scale
AutoscaleFetch ==
    /\ module = "autoscale" /\ pc = "fetch"
    /\ \E out \in GetOutcomes :
        /\ fetched' = IF out = "ok" THEN "found" ELSE out
        /\ results' = IF out = "ok" THEN remote ELSE NoResource
        /\ pc' = IF out \in {"ok", "notfound"} THEN "decide" ELSE "failed"
    /\ reads' = reads + 1
    /\ UNCHANGED <<module, mgmt_client, TOKEN_ACQUIRED, credentials, ret, fetch_log,
                   group_lookups, write_outcome, check_mode, desired, params, remote, run, self_location,
                   self_tags, self_target, resource_name, changed, to_be_updated,
                   payload, result, deletes, creates, write_failed, remote0, prev>>

\* from the fetch to the provider write, or to the return when none is due
AutoscaleDecide ==
    /\ module = "autoscale" /\ pc = "decide"
    /\ LET chg == Changed(desired.state, self_tags, self_target, desired.enabled,
                          params, desired.notifications, results)
           existing == desired.state = "present" /\ IsObj(results)
           tags == IF existing /\ update_tags(self_tags, results.tags)[1]
                   THEN update_tags(self_tags, results.tags)[2] ELSE self_tags
           name == IF existing /\ Truthy(results.autoscale_setting_resource_name)
                   THEN results.autoscale_setting_resource_name ELSE resource_name
           built == AutoscaleSettingResource(self_location, tags, params,
                        desired.notifications, desired.enabled, name, self_target)
       IN  /\ changed' = chg
           /\ self_tags' = tags
           /\ resource_name' = name
           /\ IF IsObj(results) /\ desired.state = "absent"
              THEN /\ UNCHANGED <<payload, results>>
                   /\ IF ~check_mode
                      THEN pc' = "delete" /\ UNCHANGED result
                      ELSE pc' = "done" /\ result' = AutoscaleResults(results, chg)
              ELSE IF desired.state = "present" /\ chg
              THEN IF PayloadRaises(params, desired.notifications)
                   THEN pc' = "raised" /\ UNCHANGED <<payload, results, result>>
                   ELSE /\ payload' = built
                        /\ results' = built
                        /\ IF ~check_mode
                           THEN pc' = "create" /\ UNCHANGED result
                           ELSE pc' = "done" /\ result' = AutoscaleResults(built, chg)
              ELSE /\ pc' = "done" /\ result' = AutoscaleResults(results, chg)
                   /\ UNCHANGED <<payload, results>>
    /\ UNCHANGED <<module, mgmt_client, TOKEN_ACQUIRED, credentials, ret, fetch_log,
                   group_lookups, write_outcome, check_mode, desired, params, remote, run, self_location,
                   self_target, to_be_updated, reads, deletes, creates, fetched,
                   write_failed, remote0, prev>>

\* delete_auto_scale, then the return
AutoscaleDelete ==
    /\ module = "autoscale" /\ pc = "delete"
    /\ deletes' = deletes + 1
    /\ \E out \in DeleteOutcomes :
        /\ write_outcome' = out
        /\ IF out = "ok"
           THEN /\ remote' = NoResource
                /\ pc' = "done" /\ result' = AutoscaleResults(results, changed)
                /\ UNCHANGED write_failed
           ELSE /\ pc' = "failed" /\ write_failed' = TRUE
                /\ remote' = IF out = "notfound" THEN NoResource ELSE remote
                /\ UNCHANGED result
    /\ UNCHANGED <<module, mgmt_client, TOKEN_ACQUIRED, credentials, ret, fetch_log,
                   group_lookups, check_mode, desired, params, run, self_location, self_tags,
                   self_target, resource_name, results, changed, to_be_updated,
                   payload, reads, creates, fetched, remote0, prev>>

\* create_or_update_auto_scale, then the return
AutoscaleCreate ==
    /\ module = "autoscale" /\ pc = "create"
    /\ creates' = creates + 1
    /\ \E out \in WriteOutcomes :
        /\ write_outcome' = out
        /\ IF out = "ok"
           THEN /\ remote' = Stored(payload)
                /\ results' = Stored(payload)
                /\ pc' = "done" /\ result' = AutoscaleResults(Stored(payload), changed)
                /\ UNCHANGED write_failed
           ELSE /\ pc' = "failed" /\ write_failed' = TRUE
                /\ UNCHANGED <<remote, results, result>>
    /\ UNCHANGED <<module, mgmt_client, TOKEN_ACQUIRED, credentials, ret, fetch_log,
                   group_lookups, check_mode, desired, params, run, self_location, self_tags,
                   self_target, resource_name, changed, to_be_updated, payload,
                   reads, deletes, fetched, remote0, prev>>


(***************************************************************************)
(* AzureRMServers.exec_module, cut at its provider calls.                  *)
(***************************************************************************)
\* self.results rebuilt at the return, its `changed` back to the initial False
ServersResultsReset(chg, state) == [changed |-> FALSE, state |-> state]

\* self.results of AzureRMServers
ServersResults(chg, state) == [changed |-> chg, state |-> state]

\* the block `if self.state == 'present':` that ends exec_module, short of
\* create_update_servers: <<next position, self.results>>
ServersTail(tbu, chg) ==
    IF desired.state = "present"
    THEN IF check_mode THEN <<"done", ServersResults(chg, EmptyDict)>>
         ELSE IF tbu THEN <<"create", result>>
         ELSE <<"done", ServersResults(chg, results)>>
    ELSE <<"done", ServersResults(chg, EmptyDict)>>

\* an existing server is deleted only on the way to being re-created
ServersDeletesOnlyPresent(state, check) == state = "present" /\ ~check

\* whether the branch for an existing server calls delete_servers
ServersDeletes(state, check) ==
    \/ state = "absent"
    \/ state = "present" /\ ~check

\* setattr loop and the resource group lookup
ServersStart ==
    /\ module = "servers" /\ pc = "start"
    /\ reads' = reads + 1
    /\ mgmt_client' = "client"
    /\ group_lookups' = group_lookups + 1
    /\ \E group \in GroupOutcomes :
        pc' = IF group = "ok" THEN "fetch" ELSE "failed"
    /\ UNCHANGED <<module, TOKEN_ACQUIRED, credentials, ret, fetch_log,
                   write_outcome, check_mode, desired, params, remote, run, self_location,
                   self_tags, self_target, resource_name, results, changed,
                   to_be_updated, payload, result, deletes, creates, fetched,
                   write_failed, remote0, prev>>

\* get_servers: every CloudError reads as "not there"
ServersFetch ==
    /\ module = "servers" /\ pc = "fetch"
    /\ reads' = reads + 1
    /\ \E out \in GetOutcomes :
        /\ fetched' = IF out = "ok" THEN "found" ELSE out
        /\ results' = IF out = "ok" THEN remote ELSE NoResource
        /\ pc' = IF out = "exception" THEN "raised" ELSE "decide"
    /\ UNCHANGED <<module, mgmt_client, TOKEN_ACQUIRED, credentials, ret, fetch_log,
                   group_lookups, write_outcome, check_mode, desired, params, remote, run, self_location,
                   self_tags, self_target, resource_name, changed, to_be_updated,
                   payload, result, deletes, creates, write_failed, remote0, prev>>

\* from the fetch to the first provider write, or to the return when none is due
ServersDecide ==
    /\ module = "servers" /\ pc = "decide"
    /\ LET tbu == desired.state = "present"
       IN  /\ to_be_updated' = tbu
           /\ IF IsObj(results) /\ ServersDeletes(desired.state, check_mode)
              THEN pc' = "delete" /\ UNCHANGED result
              ELSE /\ pc' = ServersTail(tbu, changed)[1]
                   /\ result' = ServersTail(tbu, changed)[2]
    /\ UNCHANGED <<module, mgmt_client, TOKEN_ACQUIRED, credentials, ret, fetch_log,
                   group_lookups, write_outcome, check_mode, desired, params, remote, run, self_location,
                   self_tags, self_target, resource_name, results, changed, payload,
                   reads, deletes, creates, fetched, write_failed, remote0, prev>>

\* delete_servers, then the rest of exec_module up to create_update_servers
ServersDelete ==
    /\ module = "servers" /\ pc = "delete"
    /\ deletes' = deletes + 1
    /\ \E out \in DeleteOutcomes :
        /\ write_outcome' = out
        /\ IF out = "ok"
           THEN LET chg == IF desired.state = "absent" THEN TRUE ELSE changed
                IN  /\ remote' = NoResource
                    /\ changed' = chg
                    /\ pc' = ServersTail(to_be_updated, chg)[1]
                    /\ result' = ServersTail(to_be_updated, chg)[2]
                    /\ UNCHANGED write_failed
           ELSE /\ pc' = IF out = "exception" THEN "raised" ELSE "failed"
                /\ write_failed' = TRUE
                /\ remote' = IF out = "notfound" THEN NoResource ELSE remote
                /\ UNCHANGED <<changed, result>>
    /\ UNCHANGED <<module, mgmt_client, TOKEN_ACQUIRED, credentials, ret, fetch_log,
                   group_lookups, check_mode, desired, params, run, self_location, self_tags,
                   self_target, resource_name, results, to_be_updated, payload,
                   reads, creates, fetched, remote0, prev>>

\* create_update_servers, then the return
ServersCreate ==
    /\ module = "servers" /\ pc = "create"
    /\ creates' = creates + 1
    /\ payload' = ServersParameters(desired)
    /\ \E out \in WriteOutcomes :
        /\ write_outcome' = out
        /\ IF out = "ok"
           THEN /\ remote' = Stored(ServersParameters(desired))
                /\ changed' = TRUE
                /\ pc' = "done"
                /\ result' = ServersResults(TRUE, Stored(ServersParameters(desired)))
                /\ UNCHANGED write_failed
           ELSE /\ pc' = IF out = "error" THEN "failed" ELSE "raised"
                /\ write_failed' = TRUE
                /\ UNCHANGED <<remote, changed, result>>
    /\ UNCHANGED <<module, mgmt_client, TOKEN_ACQUIRED, credentials, ret, fetch_log,
                   group_lookups, check_mode, desired, params, run, self_location, self_tags,
                   self_target, resource_name, results, to_be_updated, reads, deletes,
                   fetched, remote0, prev>>

(***************************************************************************)
(* After an invocation that returned, the caller runs the module again     *)
(* with the same arguments, in a fresh process: a new module object, the   *)
(* arguments parsed anew.                                                  *)
(***************************************************************************)
RunSummary ==
    [kind |-> "run", check_mode |-> check_mode, outcome |-> pc, changed |-> changed,
     remote0 |-> remote0, fetched |-> fetched, deletes |-> deletes,
     creates |-> creates]

NextRun ==
    /\ pc = "done" /\ run < MaxRuns
    /\ prev' = RunSummary
    /\ run' = run + 1
    /\ check_mode' \in BOOLEAN
    /\ params' = IF module = "autoscale" THEN desired.profiles ELSE NoneList
    /\ pc' = "start"
    /\ self_location' = desired.location
    /\ self_tags' = desired.tags
    /\ self_target' = IF module = "autoscale" THEN desired.target ELSE None
    /\ resource_name' = ResourceName
    /\ results' = NoResource
    /\ changed' = FALSE
    /\ to_be_updated' = FALSE
    /\ payload' = NoResource
    /\ result' = NoResource
    /\ reads' = 0 /\ deletes' = 0 /\ creates' = 0
    /\ fetched' = "none"
    /\ write_failed' = FALSE
    /\ write_outcome' = "none"
    /\ group_lookups' = 0
    /\ mgmt_client' = IF module = "servers" THEN None ELSE "Absent"
    /\ remote0' = remote
    /\ UNCHANGED <<module, TOKEN_ACQUIRED, credentials, ret, fetch_log,
                   desired, remote>>

Next ==
    \/ AutoscaleStart
    \/ AutoscaleFetch
    \/ AutoscaleDecide
    \/ AutoscaleDelete
    \/ AutoscaleCreate
    \/ ServersStart
    \/ ServersFetch
    \/ ServersDecide
    \/ ServersDelete
    \/ ServersCreate
    \/ NextRun

Spec == Init /\ [][Next]_vars


(***************************************************************************)
(* The facts modules.  An invocation issues one provider read, a get of    *)
(* the named resource or a listing, and returns what it read.  A listing   *)
(* is a page of the resources the provider holds, at most one here.        *)
(***************************************************************************)
FactsModules == {"autoscale_facts", "servers_facts", "elasticpools_facts",
                 "virtualnetworkrules_facts", "encryptionprotectors_facts"}

FalseValue == [kind |-> "False"]        \* the value False a facts method returns
Page(items) == [kind |-> "page", items |-> items]
as_dict(response) == [kind |-> "dict", of |-> response]

\* requested tags: NoneTags when none are asked for; a key asked for without
\* a value holds "Any"
FactsTags == {NoneTags, Tags("Any", "Missing"), Tags("dev", "Missing")}

\* AzureRMModuleBase.has_tags: every requested tag is on the object, with the
\* requested value when one is given; no requested tag matches everything
has_tags(obj_tags, tag_list) ==
    LET asked == {k \in TagKeys : ~tag_list.isNone /\ tag_list[k] # "Missing"}
        held == {k \in TagKeys : ~obj_tags.isNone /\ obj_tags[k] # "Missing"}
    IN  IF held = {} /\ asked # {} THEN FALSE
        ELSE \A k \in asked :
                IF tag_list[k] = "Any" THEN k \in held ELSE obj_tags[k] = tag_list[k]

\* AzureRMModuleBase.serialize_obj: the object as a dict of its attributes
serialize_obj(item) == [kind |-> "serialized", of |-> item]

\* AzureRMAutoScaleFacts.format_item
format_item(format, item) ==
    IF format = "curated" THEN auto_scale_to_dict(item) ELSE serialize_obj(item)

AutoscaleFactsDesired ==
    {[resource_group |-> "rg", name |-> n, format |-> f, tags |-> t] :
        n \in {None, ResourceName, "other"}, f \in {"raw", "curated"}, t \in FactsTags}

ServersFactsDesired ==
    {[resource_group_name |-> "rg", server_name |-> n] : n \in {ResourceName, "other"}}

ElasticPoolsFactsDesired ==
    {[resource_group_name |-> "rg", server_name |-> "sql", elastic_pool_name |-> n] :
        n \in {ResourceName, "other"}}

VirtualNetworkRulesFactsDesired ==
    {[resource_group_name |-> "rg", server_name |-> "sql",
      virtual_network_rule_name |-> n] : n \in {ResourceName, "other"}}

EncryptionProtectorsFactsDesired ==
    {[resource_group_name |-> "rg", server_name |-> "sql",
      encryption_protector_name |-> n] : n \in {ResourceName, "other"}}

\* a child resource of a SQL server as the provider holds it
SqlChildRemote ==
    {NoResource} \cup
    {[kind |-> "resource", id |-> "/id/foobar", name |-> ResourceName, location |-> l] :
        l \in {"eastus", "westus"}}

\* outcomes of a get of `name`, and of a listing; a listing that succeeds
\* returns a page, which has the attribute `name` the SQL facts modules read
\* from it ("ok") or lacks it ("paged")
FactsGetOutcomes(name) ==
    IF IsObj(remote) /\ remote.name = name THEN {"ok", "error", "exception"}
    ELSE {"notfound", "error", "exception"}
FactsListOutcomes == {"ok", "paged", "notfound", "error", "exception"}
Listing == Page(IF IsObj(remote) THEN <<remote>> ELSE <<>>)

\* self.mgmt_client of a SQL facts object when exec_module runs: the modules
\* never assign it, so the attribute is missing ("Absent") unless
\* AzureRMModuleBase supplies one ("client")
MgmtClient == {"Absent", "client"}

FactsInit ==
    /\ module \in FactsModules
    /\ \/ module = "autoscale_facts" /\ desired \in AutoscaleFactsDesired
                                     /\ remote \in AutoscaleRemote
       \/ module = "servers_facts" /\ desired \in ServersFactsDesired
                                   /\ remote \in ServersRemote
       \/ module = "elasticpools_facts" /\ desired \in ElasticPoolsFactsDesired
                                        /\ remote \in SqlChildRemote
       \/ module = "virtualnetworkrules_facts"
            /\ desired \in VirtualNetworkRulesFactsDesired /\ remote \in SqlChildRemote
       \/ module = "encryptionprotectors_facts"
            /\ desired \in EncryptionProtectorsFactsDesired /\ remote \in SqlChildRemote
    /\ check_mode \in BOOLEAN
    /\ params = NoneList
    /\ pc = "start"
    /\ run = 1
    /\ self_location = None
    /\ self_tags = NoneTags
    /\ self_target = None
    /\ resource_name = ResourceName
    /\ results = NoResource
    /\ changed = FALSE
    /\ to_be_updated = FALSE
    /\ payload = NoResource
    /\ result = NoResource
    /\ reads = 0 /\ deletes = 0 /\ creates = 0
    /\ fetched = "none"
    /\ write_failed = FALSE
    /\ write_outcome = "none"
    /\ group_lookups = 0
    /\ mgmt_client \in IF module = "autoscale_facts" THEN {"Absent"} ELSE MgmtClient
    /\ TOKEN_ACQUIRED = FALSE /\ credentials = "none" /\ ret = <<>> /\ fetch_log = <<>>
    /\ remote0 = remote
    /\ prev = NoRun

\* self.results flagged as a change once something was read
SqlFactsResultsChanged(key, value) ==
    [changed |-> TRUE,
     ansible_facts |-> [azure_dnsrecordset |-> <<>>, key |-> key, value |-> value]]

\* self.results of the SQL facts modules, the method's value under its key
SqlFactsResults(key, value) ==
    [changed |-> FALSE,
     ansible_facts |-> [azure_dnsrecordset |-> <<>>, key |-> key, value |-> value]]

\* get() / list_by_...() of the SQL facts modules: the response as a dict, and
\* False after any CloudError
SqlFactsValue(out, response) == IF out = "ok" THEN as_dict(response) ELSE FalseValue

\* the provider read `out` ended and exec_module returns `value`, unless the
\* read or the code after it raised something that is not a CloudError
FactsReturn(out, value) ==
    /\ pc = "start"
    /\ reads' = reads + 1
    /\ fetched' = IF out \in {"ok", "paged"} THEN "found" ELSE out
    /\ IF out \in {"exception", "paged"}
       THEN pc' = "raised" /\ UNCHANGED result
       ELSE pc' = "done" /\ result' = value
    /\ UNCHANGED <<module, mgmt_client, TOKEN_ACQUIRED, credentials, ret, fetch_log,
                   check_mode, desired, params, remote, run, self_location,
                   self_tags, self_target, resource_name, results, changed,
                   to_be_updated, payload, deletes, creates, write_failed,
                   write_outcome, group_lookups, remote0, prev>>

\* AzureRMAutoScaleFacts.exec_module with get and list_by_resource_group
AutoscaleFacts ==
    /\ module = "autoscale_facts"
    /\ IF Truthy(desired.resource_group) /\ Truthy(desired.name)
       THEN \E out \in FactsGetOutcomes(desired.name) :
                FactsReturn(out,
                    [autoscales |-> IF out = "ok"
                                    THEN <<format_item(desired.format, remote)>>
                                    ELSE <<>>])
       ELSE \E out \in FactsListOutcomes \ {"paged"} :
                FactsReturn(out,
                    [autoscales |-> IF out = "ok"
                        THEN [i \in 1..Len(SelectSeq(Listing.items,
                                    LAMBDA item : has_tags(item.tags, desired.tags))) |->
                                format_item(desired.format, remote)]
                        ELSE <<>>])

\* self.results of the SQL facts modules as __init__ builds it
SqlFactsResultsInit == [changed |-> FALSE, ansible_facts |-> [azure_dnsrecordset |-> <<>>]]

\* exec_module of a SQL facts module when neither its if nor its elif holds:
\* self.results is returned as constructed, and no method is called
FactsUntouched ==
    /\ pc = "start"
    /\ pc' = "done"
    /\ result' = SqlFactsResultsInit
    /\ UNCHANGED <<module, mgmt_client, TOKEN_ACQUIRED, credentials, ret, fetch_log,
                   check_mode, desired, params, remote, run, self_location,
                   self_tags, self_target, resource_name, results, changed,
                   to_be_updated, payload, reads, deletes, creates, fetched,
                   write_failed, write_outcome, group_lookups, remote0, prev>>

\* the attribute lookup self.mgmt_client in the try of get() / list_by_...()
\* raises AttributeError, which `except CloudError` does not catch: the
\* invocation ends before any provider call
FactsAttributeError ==
    /\ pc = "start"
    /\ pc' = "raised"
    /\ UNCHANGED <<module, mgmt_client, TOKEN_ACQUIRED, credentials, ret, fetch_log,
                   check_mode, desired, params, remote, run, self_location,
                   self_tags, self_target, resource_name, results, changed,
                   to_be_updated, payload, result, reads, deletes, creates, fetched,
                   write_failed, write_outcome, group_lookups, remote0, prev>>

\* a method of a SQL facts module reaching the provider through
\* self.mgmt_client: `call` when the object carries a client there
SqlFactsCall(call) == IF mgmt_client = "client" THEN call ELSE FactsAttributeError

\* AzureRMServersFacts.exec_module: the elif implies the if, so get() is
\* never called
ServersFacts ==
    /\ module = "servers_facts"
    /\ IF desired.resource_group_name # None
       THEN SqlFactsCall(\E out \in FactsListOutcomes :
                FactsReturn(out, SqlFactsResults("list_by_resource_group",
                                                 SqlFactsValue(out, Listing))))
       ELSE FactsUntouched

\* AzureRMElasticPoolsFacts.exec_module
ElasticPoolsFacts ==
    /\ module = "elasticpools_facts"
    /\ IF /\ desired.resource_group_name # None /\ desired.server_name # None
          /\ desired.elastic_pool_name # None
       THEN SqlFactsCall(\E out \in FactsGetOutcomes(desired.elastic_pool_name) :
                FactsReturn(out, SqlFactsResults("get", SqlFactsValue(out, remote))))
       ELSE IF desired.resource_group_name # None /\ desired.server_name # None
       THEN SqlFactsCall(\E out \in FactsListOutcomes :
                FactsReturn(out, SqlFactsResults("list_by_server",
                                                 SqlFactsValue(out, Listing))))
       ELSE FactsUntouched

\* AzureRMVirtualNetworkRulesFacts.exec_module
VirtualNetworkRulesFacts ==
    /\ module = "virtualnetworkrules_facts"
    /\ IF /\ desired.resource_group_name # None /\ desired.server_name # None
          /\ desired.virtual_network_rule_name # None
       THEN SqlFactsCall(\E out \in FactsGetOutcomes(desired.virtual_network_rule_name) :
                FactsReturn(out, SqlFactsResults("get", SqlFactsValue(out, remote))))
       ELSE IF desired.resource_group_name # None /\ desired.server_name # None
       THEN SqlFactsCall(\E out \in FactsListOutcomes :
                FactsReturn(out, SqlFactsResults("list_by_server",
                                                 SqlFactsValue(out, Listing))))
       ELSE FactsUntouched

\* AzureRMEncryptionProtectorsFacts.exec_module: the elif implies the if, so
\* get() is never called
EncryptionProtectorsFacts ==
    /\ module = "encryptionprotectors_facts"
    /\ IF desired.resource_group_name # None /\ desired.server_name # None
       THEN SqlFactsCall(\E out \in FactsListOutcomes :
                FactsReturn(out, SqlFactsResults("list_by_server",
                                                 SqlFactsValue(out, Listing))))
       ELSE FactsUntouched

FactsNext ==
    \/ AutoscaleFacts
    \/ ServersFacts
    \/ ElasticPoolsFacts
    \/ VirtualNetworkRulesFacts
    \/ EncryptionProtectorsFacts

FactsSpec == FactsInit /\ [][FactsNext]_vars


(***************************************************************************)
(* The lookup plugin azure_keyvault_secret.  Importing the plugin asks the *)
(* instance metadata endpoint for an MSI token; run() then fetches the     *)
(* secret of each name in terms[0], with the token when there is one and   *)
(* with a service principal otherwise.  The provider is a key vault, the   *)
(* set of the secret names it holds.                                       *)
(***************************************************************************)
MaxTerms == 2           \* length of terms[0]

TermNames == {"a", "b"}
SecretOf(term) == IF term = "a" THEN "alpha" ELSE "beta"
Vault(names) == [kind |-> "vault", secrets |-> names]

LookupDesired ==
    {[terms0 |-> q, vault_url |-> u, client_id |-> c, key |-> c, tenant_id |-> c] :
        q \in SeqsUpTo(TermNames, MaxTerms), u \in {None, "https://vault/"},
        c \in {None, "sp"}}

LookupInit ==
    /\ module = "keyvault_secret"
    /\ desired \in LookupDesired
    /\ remote \in {Vault(names) : names \in SUBSET TermNames}
    /\ check_mode = FALSE
    /\ params = NoneList
    /\ pc = "import"
    /\ run = 1
    /\ self_location = None
    /\ self_tags = NoneTags
    /\ self_target = None
    /\ resource_name = ResourceName
    /\ results = NoResource
    /\ changed = FALSE
    /\ to_be_updated = FALSE
    /\ payload = NoResource
    /\ result = NoResource
    /\ reads = 0 /\ deletes = 0 /\ creates = 0
    /\ fetched = "none"
    /\ write_failed = FALSE
    /\ write_outcome = "none"
    /\ group_lookups = 0
    /\ mgmt_client = "Absent"
    /\ TOKEN_ACQUIRED = FALSE /\ credentials = "none" /\ ret = <<>> /\ fetch_log = <<>>
    /\ remote0 = remote
    /\ prev = NoRun

\* the module body: the token request.  A RequestException leaves
\* TOKEN_ACQUIRED False; an answer without "access_token" is not caught
LookupImport ==
    /\ module = "keyvault_secret" /\ pc = "import"
    /\ \E out \in {"token", "unreachable", "malformed"} :
        /\ TOKEN_ACQUIRED' = (out = "token")
        /\ pc' = IF out = "malformed" THEN "raised" ELSE "start"
    /\ UNCHANGED <<module, mgmt_client, check_mode, desired, params, remote, run, self_location,
                   self_tags, self_target, resource_name, results, changed,
                   to_be_updated, payload, deletes, creates, fetched, write_failed,
                   write_outcome, group_lookups, remote0, prev, result, reads, credentials, ret, fetch_log>>

\* the service principal is never used
UseMsiNever(acquired) == FALSE

\* `if TOKEN_ACQUIRED:` of run
UseMsi(acquired) == acquired

\* run, up to the loop over terms[0]
LookupRun ==
    /\ module = "keyvault_secret" /\ pc = "start"
    /\ IF UseMsi(TOKEN_ACQUIRED)
       THEN pc' = "loop" /\ UNCHANGED credentials
       ELSE \E out \in {"ok", "import_error", "authentication_error", "exception"} :
                /\ credentials' = CASE out = "ok" -> "built"
                                    [] out = "import_error" -> "none"
                                    [] OTHER -> "refused"
                /\ pc' = CASE out = "ok" -> "loop"
                           [] out = "exception" -> "raised"
                           [] OTHER -> "failed"
    /\ UNCHANGED <<module, mgmt_client, check_mode, desired, params, remote, run, self_location,
                   self_tags, self_target, resource_name, results, changed,
                   to_be_updated, payload, deletes, creates, fetched, write_failed,
                   write_outcome, group_lookups, remote0, prev, result, reads, TOKEN_ACQUIRED, ret, fetch_log>>

\* the term's position is dropped from the list
SkipTerm(list) == list

\* ret.append('')
AppendEmpty(list) == Append(list, "")

\* how the fetch of `term` can end, with the token and with the client
MsiOutcomes(term) ==
    IF term \in remote.secrets THEN {"ok", "request_error"}
    ELSE {"no_value", "request_error"}
ClientOutcomes(term) ==
    IF term \in remote.secrets THEN {"ok", "client_request_error", "exception"}
    ELSE {"keyvault_error", "client_request_error", "exception"}

\* one turn of the loop `for term in terms[0]`
LookupFetch ==
    /\ module = "keyvault_secret" /\ pc = "loop"
    /\ Len(fetch_log) < Len(desired.terms0)
    /\ LET term == desired.terms0[Len(fetch_log) + 1]
           via == IF UseMsi(TOKEN_ACQUIRED) THEN "msi" ELSE "client"
       IN  IF via = "msi" /\ desired.vault_url = None
           THEN /\ pc' = "raised"
                /\ fetch_log' = Append(fetch_log, [via |-> via, out |-> "type_error"])
                /\ UNCHANGED <<ret, reads>>
           ELSE \E out \in IF via = "msi" THEN MsiOutcomes(term) ELSE ClientOutcomes(term) :
                /\ reads' = reads + 1
                /\ fetch_log' = Append(fetch_log, [via |-> via, out |-> out])
                /\ ret' = CASE out = "ok" -> Append(ret, SecretOf(term))
                            [] out \in {"request_error", "keyvault_error"} -> AppendEmpty(ret)
                            [] OTHER -> ret
                /\ pc' = CASE out \in {"ok", "request_error", "keyvault_error"} -> "loop"
                           [] out = "client_request_error" -> "failed"
                           [] OTHER -> "raised"
    /\ UNCHANGED <<module, mgmt_client, check_mode, desired, params, remote, run, self_location,
                   self_tags, self_target, resource_name, results, changed,
                   to_be_updated, payload, deletes, creates, fetched, write_failed,
                   write_outcome, group_lookups, remote0, prev, result, TOKEN_ACQUIRED, credentials>>

\* return ret
LookupReturn ==
    /\ module = "keyvault_secret" /\ pc = "loop"
    /\ Len(fetch_log) = Len(desired.terms0)
    /\ pc' = "done"
    /\ result' = [kind |-> "list", items |-> ret]
    /\ UNCHANGED <<module, mgmt_client, check_mode, desired, params, remote, run, self_location,
                   self_tags, self_target, resource_name, results, changed,
                   to_be_updated, payload, deletes, creates, fetched, write_failed,
                   write_outcome, group_lookups, remote0, prev, reads, TOKEN_ACQUIRED, credentials, ret, fetch_log>>

LookupNext ==
    \/ LookupImport
    \/ LookupRun
    \/ LookupFetch
    \/ LookupReturn

LookupSpec == LookupInit /\ [][LookupNext]_vars


(***************************************************************************)
(* Properties.                                                             *)
(***************************************************************************)
\* the resource the fetch of the running invocation returned
Found == IF fetched = "found" THEN remote0 ELSE NoResource

\* self.location once the default is applied
EffectiveLocation == IF Truthy(desired.location) THEN desired.location ELSE GroupLocation

\* the provider already holds what the desired state would produce
RemoteMatchesDesired ==
    /\ desired.state = "present"
    /\ IF module = "autoscale"
       THEN /\ desired.target # DictTarget
            /\ ~SetDefaultUriRaises(desired.profiles)
            /\ ~PayloadRaises(desired.profiles, desired.notifications)
            /\ remote0 = Stored(AutoscaleSettingResource(EffectiveLocation, desired.tags,
                            SetDefaultUri(desired.profiles, desired.target),
                            desired.notifications, desired.enabled, ResourceName,
                            desired.target))
       ELSE remote0 = Stored(ServersParameters(desired))

\* C1: in check mode no invocation issues a provider write call (neither
\* delete nor create_or_update), whatever the desired and the remote state.
C1_CheckModeNeverWrites == check_mode => (deletes = 0 /\ creates = 0)

\* C2: two successive real runs with the same desired state (state=present),
\* the first starting from an absent resource: the first reports
\* changed=true, the second changed=false.
C2_SecondRunUnchanged ==
    (/\ pc = "done" /\ prev.kind = "run" /\ desired.state = "present"
     /\ ~check_mode /\ ~prev.check_mode
     /\ prev.fetched = "notfound" /\ fetched = "found")
        => (prev.changed /\ ~result.changed)

\* C3: when state=present and the remote resource already equals what the
\* desired state would produce, no write call is issued and the invocation
\* reports changed=false.
C3_EqualRemoteIsNoOp ==
    (fetched = "found" /\ RemoteMatchesDesired)
        => (/\ deletes = 0 /\ creates = 0
            /\ pc \notin {"delete", "create"}
            /\ pc = "done" => ~result.changed)

\* C4: when the fetch reports not-found and state=absent, no delete call and
\* no other write call is issued and the invocation reports changed=false.
C4_AbsentAndNotFound ==
    (fetched = "notfound" /\ desired.state = "absent")
        => (/\ deletes = 0 /\ creates = 0
            /\ pc \in {"decide", "done"}
            /\ pc = "done" => ~result.changed)

C4_Witness ==
    /\ pc = "done" /\ fetched = "notfound" /\ desired.state = "absent"
    /\ ~check_mode /\ result.changed = FALSE /\ reads > 0

\* C5: when the fetch reports not-found and state=present outside check mode,
\* the invocation issues exactly one create_or_update call and no delete call
\* and reports changed=true (unless the provider rejects the call).
C5_CreatesWhenNotFound ==
    (/\ fetched = "notfound" /\ desired.state = "present" /\ ~check_mode
     /\ pc \in Terminal /\ ~write_failed)
        => (creates = 1 /\ deletes = 0 /\ pc = "done" /\ result.changed)


\* a sequence as the set of its elements
Range(q) == {q[i] : i \in 1..Len(q)}

\* a payload profile with its rules taken as a set
Unordered(profile) == [profile EXCEPT !.rules = Range(@)]

\* the content of the desired nested lists differs from the resource's,
\* order aside (lists compared as sets, and so each profile's rules)
NestedContentDiffers(found) ==
    \/ {Unordered(AutoscaleProfile(p)) : p \in Range(OrEmpty(params))}
            # {Unordered(q) : q \in Range(found.profiles)}
    \/ {AutoscaleNotification(n) : n \in Range(OrEmpty(desired.notifications))}
            # Range(found.notifications)

\* C6: in azure_rm_autoscale a content difference between the desired and
\* the remote nested lists (profiles, their rules, notifications) makes the
\* invocation report changed=true, even when tags, target and enabled match.
C6_NestedDriftDetected ==
    (/\ module = "autoscale" /\ pc = "done" /\ desired.state = "present"
     /\ fetched = "found"
     /\ ~PayloadRaises(params, desired.notifications)
     /\ NestedContentDiffers(Found))
        => result.changed

\* all orderings of a sequence
Orderings(q) ==
    {[i \in 1..Len(q) |-> q[f[i]]] :
        f \in {g \in [1..Len(q) -> 1..Len(q)] : \A i, j \in 1..Len(q) : g[i] = g[j] => i = j}}

\* a profile with its rules in any order
RulePermutations(p) ==
    IF p.rules.key # "list" THEN {p}
    ELSE {[p EXCEPT !.rules = List(r)] : r \in Orderings(p.rules.items)}

\* a profiles list in any order, the rules of each profile in any order
ProfilePermutations(l) ==
    IF l.key # "list" THEN {l}
    ELSE UNION {{List(c) : c \in {d \in [1..Len(q) -> UNION {RulePermutations(q[i]) : i \in 1..Len(q)}] :
                                    \A i \in 1..Len(q) : d[i] \in RulePermutations(q[i])}} :
                q \in Orderings(l.items)}

\* a notifications list in any order
NotificationPermutations(l) ==
    IF l.key # "list" THEN {l} ELSE {List(q) : q \in Orderings(l.items)}

\* C7: list-order invariance in azure_rm_autoscale: with the profiles, the
\* rules of each profile and the notifications of the desired state taken in
\* any other order, `changed` is what the invocation computed and a write is
\* due exactly when the invocation issued one.
C7_ListOrderInvariance ==
    (module = "autoscale" /\ pc \in {"done", "failed", "raised"}
        /\ fetched \in {"found", "notfound"})
    => \A p \in ProfilePermutations(params) :
       \A n \in NotificationPermutations(desired.notifications) :
          LET chg == Changed(desired.state, desired.tags, self_target, desired.enabled,
                             p, n, Found)
              writes == /\ chg /\ ~check_mode
                        /\ ~(desired.state = "present" /\ PayloadRaises(p, n))
          IN  /\ chg = changed
              /\ writes = (deletes + creates > 0)

C7_Witness ==
    /\ module = "autoscale" /\ pc = "done" /\ fetched = "found"
    /\ desired.state = "present" /\ ~check_mode
    /\ Cardinality(ProfilePermutations(params)) > 2
    /\ Cardinality(NotificationPermutations(desired.notifications)) > 1
    /\ ~changed /\ creates = 0

\* C8: the fetch reads a failure as "absent" only when it is not-found; any
\* other failure of the lookup fails the invocation and no write call follows.
C8_OnlyNotFoundIsAbsent ==
    fetched \in {"error", "exception"}
        => (pc \in {"failed", "raised"} /\ deletes = 0 /\ creates = 0)

\* C9: for the same desired state and the same remote state, an invocation
\* in check mode reports the `changed` value a real invocation reports.
C9_CheckModeReportsSameChanged ==
    (/\ pc = "done" /\ prev.kind = "run" /\ prev.check_mode # check_mode
     /\ prev.remote0 = remote0 /\ prev.fetched = fetched
     /\ fetched \in {"found", "notfound"})
        => prev.changed = result.changed

\* C10: changed=true is reported only after a write call succeeded (or, in
\* check mode, when one would have been issued: the payload was built or a
\* delete was due): an invocation whose write call fails ends as a failure
\* and returns nothing, and one that returns outside check mode without
\* having issued a write reports changed=false.
C10_ChangedOnlyAfterWrite ==
    /\ write_failed => (pc \in {"failed", "raised"} /\ result = NoResource)
    /\ pc \in {"failed", "raised"} => result = NoResource
    /\ (pc = "done" /\ ~check_mode /\ deletes + creates = 0) => ~result.changed
    /\ (pc = "done" /\ result.changed /\ ~check_mode) => deletes + creates > 0
    /\ (pc = "done" /\ result.changed /\ check_mode)
            => \/ deletes + creates > 0
               \/ IsObj(payload)
               \/ desired.state = "absent" /\ fetched = "found"

C10_Witness ==
    /\ pc = "failed" /\ write_failed /\ changed /\ creates = 1 /\ result = NoResource

\* C11: every invocation issues at most one provider read call and at most
\* one provider write call, the resource group lookup counting as a read and
\* both delete and create_or_update as writes.
C11_OneReadOneWrite == reads <= 1 /\ deletes + creates <= 1

\* C12: when state=absent, the fetch found the resource and the delete call
\* that follows reports not-found (the resource vanished in between), the
\* invocation does not fail: it returns, the desired state being satisfied.
C12_VanishedOnDeleteTolerated ==
    (/\ desired.state = "absent" /\ fetched = "found"
     /\ deletes = 1 /\ write_outcome = "notfound")
        => (pc = "done" /\ result # NoResource)

\* C13: when state=absent and the fetch finds the resource, outside check
\* mode, the invocation issues exactly one delete call and no
\* create_or_update call; it returns whenever the delete call succeeds, and
\* whenever it returns it reports changed=true.
C13_AbsentFoundDeletesOnce ==
    (/\ desired.state = "absent" /\ fetched = "found" /\ ~check_mode
     /\ pc \in Terminal)
        => /\ deletes = 1 /\ creates = 0
           /\ write_outcome = "ok" => pc = "done"
           /\ pc = "done" => (result.changed /\ remote = NoResource)

C13_Witness ==
    /\ module = "servers" /\ desired.state = "absent" /\ fetched = "found"
    /\ ~check_mode /\ pc = "done" /\ deletes = 1 /\ creates = 0
    /\ result.changed /\ remote = NoResource /\ IsObj(remote0)

\* the payload carries the lists the caller gave: as many profiles and
\* notifications, in the order given, each with its name, its rules, its
\* recipients and its webhooks
CarriesNested(sent) ==
    /\ Len(sent.profiles) = Len(OrEmpty(desired.profiles))
    /\ \A i \in 1..Len(OrEmpty(desired.profiles)) :
        LET p == desired.profiles.items[i]
        IN  /\ sent.profiles[i].name = p.name
            /\ Len(sent.profiles[i].rules) = Len(OrEmpty(GetOr(p.rules, List(<<>>))))
            /\ \A j \in 1..Len(sent.profiles[i].rules) :
                sent.profiles[i].rules[j].metric_trigger.metric_name
                    = p.rules.items[j].metric_name
    /\ Len(sent.notifications) = Len(OrEmpty(desired.notifications))
    /\ \A i \in 1..Len(OrEmpty(desired.notifications)) :
        LET n == desired.notifications.items[i]
        IN  /\ sent.notifications[i].email.custom_emails = n.custom_emails
            /\ Len(sent.notifications[i].webhooks) = Len(OrEmpty(n.webhooks))

\* C14: an update is a full replace: whenever azure_rm_autoscale issues
\* create_or_update for a resource the fetch found, the payload carries the
\* location, the desired tags, every profile and notification, the enabled
\* flag, the target resource URI and the resource name, whichever field
\* made the diff report a change.
C14_UpdateIsFullReplace ==
    (module = "autoscale" /\ creates = 1 /\ fetched = "found")
        => /\ payload.location = EffectiveLocation
           /\ \A k \in TagKeys :
                (~desired.tags.isNone /\ desired.tags[k] # "Missing")
                    => payload.tags[k] = desired.tags[k]
           /\ CarriesNested(payload)
           /\ payload.enabled = desired.enabled
           /\ payload.target_resource_uri = desired.target
           /\ payload.autoscale_setting_resource_name = ResourceName

\* an update whose only drift is the enabled flag, with two profiles and a
\* notification to carry
C14_Witness ==
    /\ module = "autoscale" /\ creates = 1 /\ fetched = "found" /\ pc = "done"
    /\ remote0.target_resource_uri = desired.target
    /\ ~update_tags(desired.tags, remote0.tags)[1]
    /\ remote0.enabled # desired.enabled
    /\ Len(payload.profiles) = 2 /\ Len(payload.notifications) >= 1
    /\ remote = Stored(payload)

\* C15: the payload of a create maps each desired profile to one payload
\* profile of the same name whose capacity is default=count,
\* minimum=min_count, maximum=max_count; the profiles keep their number and
\* their order, and target_resource_uri is the desired target.
C15_CreatePayloadProfiles ==
    (module = "autoscale" /\ creates = 1 /\ fetched = "notfound")
        => /\ Len(payload.profiles) = Len(OrEmpty(desired.profiles))
           /\ \A i \in 1..Len(OrEmpty(desired.profiles)) :
                LET p == desired.profiles.items[i]
                    q == payload.profiles[i]
                IN  /\ q.name = p.name
                    /\ q.capacity.default = p.count
                    /\ q.capacity.minimum = p.min_count
                    /\ q.capacity.maximum = p.max_count
           /\ payload.target_resource_uri = desired.target

\* the create of the specification's example, with a second profile after it
C15_Witness ==
    /\ module = "autoscale" /\ creates = 1 /\ fetched = "notfound" /\ pc = "done"
    /\ desired.target = "/vm001" /\ payload.target_resource_uri = "/vm001"
    /\ Len(payload.profiles) = 2
    /\ payload.profiles[1].name = "p1" /\ payload.profiles[2].name = "p2"
    /\ payload.profiles[1].capacity = [minimum |-> "1", maximum |-> "4", default |-> "2"]
    /\ result.changed

\* C16: an azure_rm_autoscale invocation does not mutate what the caller
\* supplied: the profiles mapping, rules included, holds after the
\* invocation the values it held before it.
C16_DesiredNotMutated == module = "autoscale" => params = desired.profiles

\* C17: normalisation survives the round trip: for every rule of a payload
\* the invocation built, the mapping rule_to_dict returns for the payload's
\* rule holds the direction, type, value and cooldown the rule was given,
\* and normalising the payload rebuilt from that mapping returns it again.
C17_RuleRoundTrip ==
    (module = "autoscale" /\ pc = "done" /\ IsObj(payload))
        => \A i \in 1..Len(result.state.profiles) :
            \A j \in 1..Len(result.state.profiles[i].rules.items) :
                LET given == params.items[i].rules.items[j]
                    back == result.state.profiles[i].rules.items[j]
                IN  /\ back.direction = given.direction
                    /\ back.type = given.type
                    /\ back.value = given.value
                    /\ back.cooldown = given.cooldown
                    /\ rule_to_dict(ScaleRule(back), desired.target) = back

\* C18: in the facts modules a provider error other than not-found during
\* the read is never swallowed: the invocation fails, it does not return an
\* empty list or False as if the resource did not exist.
C18_FactsReadErrorsFail ==
    (module \in FactsModules /\ fetched = "error")
        => (pc = "failed" /\ result = NoResource)

\* C19: `changed` is monotone within one invocation: once it is true no
\* later step of the same invocation makes it false, and the value the
\* invocation returns is the value `changed` holds at the return.
C19_ChangedMonotone ==
    /\ [][(changed /\ run' = run) => changed']_vars
    /\ [](pc = "done" => result.changed = changed)

\* `changed` set by the diff, kept through the provider write, and returned
C19_Witness ==
    /\ module = "autoscale" /\ pc = "done" /\ ~check_mode
    /\ changed /\ result.changed /\ creates = 1 /\ write_outcome = "ok"

\* C20: when `location` is not given, azure_rm_autoscale looks up the
\* resource group and uses its location, and the payload of any
\* create_or_update carries that location; when `location` is given, the
\* resource group is not looked up and the payload carries the given one.
C20_LocationDefault ==
    (module = "autoscale" /\ pc # "start")
        => /\ group_lookups = IF Truthy(desired.location) THEN 0 ELSE 1
           /\ pc \notin {"failed", "raised"} \/ fetched # "none"
                => self_location = IF Truthy(desired.location)
                                   THEN desired.location ELSE GroupLocation
           /\ creates = 1
                => payload.location = IF Truthy(desired.location)
                                      THEN desired.location ELSE GroupLocation

\* a create for a caller who gave no location: one lookup, the group's
\* location in the payload and in the store
C20_Witness ==
    /\ module = "autoscale" /\ pc = "done" /\ creates = 1
    /\ desired.location = None /\ group_lookups = 1
    /\ payload.location = GroupLocation /\ remote.location = GroupLocation

\* C21: when the resource group, the server and the resource's own name are
\* all supplied, a facts module retrieves that one resource (result key
\* 'get') and does not list: azure_rm_encryptionprotectors_facts given
\* encryption_protector_name, azure_rm_servers_facts given server_name.
C21_NamedResourceIsGot ==
    /\ (/\ module = "servers_facts" /\ pc # "start" /\ fetched # "exception"
        /\ desired.resource_group_name # None /\ desired.server_name # None)
            => /\ pc = "done"
               /\ "key" \in DOMAIN result.ansible_facts
               /\ result.ansible_facts.key = "get"
    /\ (/\ module = "encryptionprotectors_facts" /\ pc # "start"
        /\ fetched # "exception"
        /\ desired.resource_group_name # None /\ desired.server_name # None
        /\ desired.encryption_protector_name # None)
            => /\ pc = "done"
               /\ "key" \in DOMAIN result.ansible_facts
               /\ result.ansible_facts.key = "get"

\* the settings a listing returns that carry the requested tags
Matching == SelectSeq(Listing.items, LAMBDA item : has_tags(item.tags, desired.tags))

\* C22: azure_rm_autoscale_facts always returns a list of scale-setting
\* dicts under the key azure_autoscale: at most one element when `name` is
\* given, otherwise the settings of the resource group whose tags match the
\* requested tags; the list is empty when the lookup raises CloudError.
C22_AutoscaleFactsList ==
    (module = "autoscale_facts" /\ pc = "done")
        => /\ "azure_autoscale" \in DOMAIN result
           /\ Truthy(desired.name) => Len(result.azure_autoscale) <= 1
           /\ (~Truthy(desired.name) /\ fetched = "found")
                => Len(result.azure_autoscale) = Len(Matching)
           /\ fetched \in {"notfound", "error"} => result.azure_autoscale = <<>>

\* C23: whenever run() of the azure_keyvault_secret lookup returns, the list
\* has exactly as many elements as terms[0], element i is the secret of
\* term i, and a term whose fetch failed with a request error (MSI path) or
\* a KeyVaultErrorException (service principal path) holds the empty string
\* at its position.
C23_OneSecretPerTerm ==
    (module = "keyvault_secret" /\ pc = "done")
        => /\ Len(result.items) = Len(desired.terms0)
           /\ Len(fetch_log) = Len(desired.terms0)
           /\ \A i \in 1..Len(desired.terms0) :
                IF fetch_log[i].out = "ok"
                THEN result.items[i] = SecretOf(desired.terms0[i])
                ELSE /\ result.items[i] = ""
                     /\ fetch_log[i] \in {[via |-> "msi", out |-> "request_error"],
                                          [via |-> "client", out |-> "keyvault_error"]}

\* two terms, the first one failed and the second one fetched
C23_Witness ==
    /\ module = "keyvault_secret" /\ pc = "done"
    /\ Len(desired.terms0) = 2 /\ desired.terms0[1] # desired.terms0[2]
    /\ fetch_log[1].out = "keyvault_error" /\ fetch_log[2].out = "ok"
    /\ result.items = <<"", SecretOf(desired.terms0[2])>>

\* C24: when an MSI token was acquired the lookup needs no service
\* principal: run() fetches every term with the token and never builds
\* ServicePrincipalCredentials nor reads client_id, key or tenant_id; the
\* service principal path is taken only when no token was acquired.
C24_MsiNeedsNoServicePrincipal ==
    module = "keyvault_secret"
        => /\ TOKEN_ACQUIRED
                => /\ credentials = "none"
                   /\ \A i \in 1..Len(fetch_log) : fetch_log[i].via = "msi"
           /\ (credentials # "none" \/ \E i \in 1..Len(fetch_log) : fetch_log[i].via = "client")
                => ~TOKEN_ACQUIRED

\* a lookup that returned two secrets with the token, no service principal given
C24_Witness ==
    /\ module = "keyvault_secret" /\ pc = "done" /\ TOKEN_ACQUIRED
    /\ desired.client_id = None /\ desired.key = None /\ desired.tenant_id = None
    /\ credentials = "none" /\ Len(result.items) = 2
    /\ \A i \in 1..2 : fetch_log[i] = [via |-> "msi", out |-> "ok"]

\* which of the three compared fields differ between the desired state and
\* the resource the invocation started from
DriftingFields ==
    {f \in {"tags", "target", "enabled"} :
        CASE f = "tags" -> update_tags(desired.tags, remote0.tags)[1]
          [] f = "target" -> desired.target # remote0.target_resource_uri
          [] f = "enabled" -> desired.enabled # remote0.enabled}

\* C25: in azure_rm_autoscale, when the resource exists and state=present,
\* drift in any one of tags, target resource URI or the enabled flag, the
\* other two being equal, makes the invocation (outside check mode) report
\* changed=true and issue exactly one create_or_update call.
C25_SingleFieldDriftUpdates ==
    (/\ module = "autoscale" /\ desired.state = "present" /\ fetched = "found"
     /\ ~check_mode /\ pc \in Terminal
     /\ Cardinality(DriftingFields) = 1)
        => /\ changed
           /\ creates = 1 /\ deletes = 0
           /\ pc = "done" => result.changed

\* C26: every rule whose metric_resource_uri the caller omitted, the key
\* being missing from the rule mapping or present with value None, has the
\* setting's target URI as its metric_resource_uri in the payload sent to
\* create_or_update.
C26_OmittedUriDefaultsToTarget ==
    (module = "autoscale" /\ creates = 1)
        => \A i \in 1..Len(OrEmpty(desired.profiles)) :
            \A j \in 1..Len(OrEmpty(GetOr(desired.profiles.items[i].rules, List(<<>>)))) :
                desired.profiles.items[i].rules.items[j].metric_resource_uri \in {Absent, None}
                    => payload.profiles[i].rules[j].metric_trigger.metric_resource_uri
                            = desired.target

\* C27: payload construction in azure_rm_autoscale succeeds for every valid
\* desired state with omitted optional fields: a notification that omits
\* `webhooks` (value None) and a profile that omits `rules` each lead to a
\* payload and a create_or_update call, never to an unhandled error.
C27_OmittedOptionalsBuildPayload ==
    (module = "autoscale" /\ desired.target # DictTarget)
        => /\ pc # "raised"
           /\ (/\ pc \in Terminal /\ desired.state = "present" /\ ~check_mode
               /\ fetched = "notfound")
                => (IsObj(payload) /\ creates = 1)

\* C28: in azure_rm_servers an invocation with state=present never leaves
\* the server absent when it was present at the start: whatever the outcome
\* of the delete and create_or_update calls, the server exists remotely
\* when the invocation ends (nobody else having removed it meanwhile).
C28_PresentNeverLosesServer ==
    (/\ module = "servers" /\ desired.state = "present" /\ IsObj(remote0)
     /\ pc \in Terminal /\ write_outcome # "notfound")
        => IsObj(remote)

\* C29: in azure_rm_autoscale outside check mode the returned changed flag
\* is true exactly when the invocation issued a write call: changed=true
\* comes with exactly one of delete and create_or_update, changed=false
\* with neither.
C29_ChangedIffWrote ==
    (module = "autoscale" /\ pc = "done" /\ ~check_mode)
        => /\ result.changed => deletes + creates = 1
           /\ ~result.changed => deletes + creates = 0

\* both sides of the equivalence in one behaviour: a first run that creates
\* and reports changed, a second run that writes nothing and reports none
C29_Witness ==
    /\ module = "autoscale" /\ pc = "done" /\ ~check_mode /\ run = 2
    /\ prev.changed /\ prev.creates = 1 /\ ~prev.check_mode
    /\ ~result.changed /\ deletes = 0 /\ creates = 0

\* C30: the facts modules are read-only: every invocation returns
\* changed=false or no changed flag, issues no create_or_update and no
\* delete call and leaves the provider as it was, whatever the arguments
\* and whatever the provider returns.
C30_FactsReadOnly ==
    module \in FactsModules
        => /\ deletes = 0 /\ creates = 0
           /\ remote = remote0
           /\ reads <= 1
           /\ pc = "done" => ("changed" \notin DOMAIN result \/ ~result.changed)

\* a get that found the setting and returned it: one read, no write, no
\* changed flag, the provider as it was
C30_Witness ==
    /\ module = "autoscale_facts" /\ pc = "done" /\ fetched = "found"
    /\ reads = 1 /\ deletes = 0 /\ creates = 0
    /\ IsObj(remote) /\ remote = remote0
    /\ Len(result.autoscales) = 1 /\ "changed" \notin DOMAIN result

====
